---- MODULE Spec2Model ----
(***************************************************************************)
(* Model of jupyter_drives/handlers.py: the startup routine                *)
(* setup_handlers, the two request handlers (list drives, mount/unmount a  *)
(* drive), the error writer write_error and the memoized path resolver     *)
(* url2localpath.                                                          *)
(*                                                                         *)
(* Paths are sequences of segments; the string they stand for is the       *)
(* segments joined by "/".  An absolute path has "/" as its first segment, *)
(* a trailing "" segment is a trailing separator, <<>> is the empty        *)
(* string.                                                                 *)
(***************************************************************************)
EXTENDS Integers, Sequences, FiniteSets, TLC

\* ------------------------------------------------------------------ bounds
MaxReq == 2
MaxPathLen == 2

\* --------------------------------------------------------- path primitives
HOME == <<"/", "home", "u">>

\* segments a logical (URL) path is drawn from: plain names, a traversal
\* segment, a percent-encoded traversal segment, a percent-encoded absolute
\* component
Segs == {"a", "b", "..", "%2E%2E", "%2Fetc"}

RECURSIVE SeqsUpTo(_)
SeqsUpTo(n) ==
  IF n = 0 THEN {<<>>}
  ELSE LET S == SeqsUpTo(n - 1)
       IN S \cup {Append(s, x) : s \in {t \in S : Len(t) = n - 1}, x \in Segs}

LogicalPaths == SeqsUpTo(MaxPathLen)

IsPrefix(p, s) == Len(p) <= Len(s) /\ SubSeq(s, 1, Len(p)) = p

\* urllib.parse.unquote on one piece
unquote(p) ==
  CASE p = "%2E%2E" -> ".."
    [] p = "%2Fetc" -> "/etc"
    [] OTHER -> p

\* the segments of one decoded piece, and whether it is absolute
PieceAbs(b) == b = "/etc"
PieceSegs(b) == IF b = "/etc" THEN <<"/", "etc">> ELSE <<b>>

\* str.split("/") of the string a path stands for: "" splits to [""]
split(path) == IF path = <<>> THEN <<"">> ELSE path

\* one iteration of the loop of os.path.join (posixpath.join)
JoinStep(path, b) ==
  IF PieceAbs(b) THEN PieceSegs(b)
  ELSE IF path = <<>> THEN (IF b = "" THEN <<>> ELSE <<b>>)
  ELSE IF path[Len(path)] = "" THEN
         (IF b = "" THEN path ELSE Append(SubSeq(path, 1, Len(path) - 1), b))
  ELSE Append(path, b)

RECURSIVE JoinPieces(_, _)
JoinPieces(path, pieces) ==
  IF pieces = <<>> THEN path
  ELSE JoinPieces(JoinStep(path, Head(pieces)), Tail(pieces))

\* jupyter_server.utils.url2path: split on "/", unquote each piece, os.path.join
url2path(url) ==
  LET pieces == [i \in 1..Len(split(url)) |-> unquote(split(url)[i])]
  IN JoinPieces(JoinStep(<<>>, Head(pieces)), Tail(pieces))

\* os.path.join(a, b) for two paths
PathJoin(a, b) ==
  IF b # <<>> /\ Head(b) = "/" THEN b
  ELSE IF b = <<>> THEN (IF a[Len(a)] = "" THEN a ELSE Append(a, ""))
  ELSE IF a[Len(a)] = "" THEN SubSeq(a, 1, Len(a) - 1) \o b
  ELSE a \o b

\* os.path.expanduser
expanduser(p) == IF p # <<>> /\ Head(p) = "~" THEN HOME \o Tail(p) ELSE p

\* posixpath.normpath: drop "" and ".", let ".." consume the previous name
RECURSIVE NormFold(_, _, _)
NormFold(abs, stack, rest) ==
  IF rest = <<>> THEN stack
  ELSE LET s == Head(rest)
       IN IF s = "" \/ s = "." THEN NormFold(abs, stack, Tail(rest))
          ELSE IF s = ".." THEN
                 IF stack # <<>> /\ stack[Len(stack)] # ".."
                 THEN NormFold(abs, SubSeq(stack, 1, Len(stack) - 1), Tail(rest))
                 ELSE IF abs THEN NormFold(abs, stack, Tail(rest))
                 ELSE NormFold(abs, Append(stack, ".."), Tail(rest))
          ELSE NormFold(abs, Append(stack, s), Tail(rest))

normpath(p) ==
  IF p # <<>> /\ Head(p) = "/" THEN <<"/">> \o NormFold(TRUE, <<>>, Tail(p))
  ELSE NormFold(FALSE, <<>>, p)

\* the local path denotes a location inside (or equal to) the root directory
InsideRoot(local, root) == IsPrefix(normpath(root), normpath(local))

\* ---------------------------------------------------- contents managers
\* a host contents manager: a plain one with a root_dir, or a hybrid one
\* whose managers dict maps a path prefix to the root_dir of a sub-manager
PlainCM(root) == [hybrid |-> FALSE, root_dir |-> root, managers |-> {}]
HybridCM(ms) == [hybrid |-> TRUE, root_dir |-> <<>>, managers |-> ms]

CMs ==
  { PlainCM(<<"/", "srv">>),
    PlainCM(<<"~", "nb">>),
    HybridCM({<<"", <<"/", "srv">>>>, <<"a", <<"/", "mnt", "a">>>>}),
    HybridCM({<<"a", <<"/", "mnt", "a">>>>}) }

\* the root configurations the running server is switched between
ServedCMs ==
  { PlainCM(<<"/", "srv">>),
    PlainCM(<<"~", "nb">>),
    HybridCM({<<"a", <<"/", "mnt", "a">>>>}) }

HasManager(ms, prefix) == \E m \in ms : m[1] = prefix
ManagerRoot(ms, prefix) == (CHOOSE m \in ms : m[1] = prefix)[2]

\* outcome of a call: a value, or a raised exception
NoExc == [cls |-> "none", status |-> 0,
          reason |-> [kind |-> "null", text |-> ""],
          has_code |-> FALSE, error_code |-> ""]
JNull == [kind |-> "null", text |-> ""]
JText(t) == [kind |-> "str", text |-> t]
HTTPError(s) == [cls |-> "HTTPError", status |-> s, reason |-> JNull,
                 has_code |-> FALSE, error_code |-> ""]
Exc(c) == [cls |-> c, status |-> 0, reason |-> JNull,
           has_code |-> FALSE, error_code |-> ""]

\* hybridcontents.hybridmanager._resolve_path: normalize the API path
\* (rejecting one that leaves the root), pick the sub-manager of the first
\* segment, else the root manager "", else 404
resolve_path(path, ms) ==
  LET normalized == normpath(path)
      parts == split(normalized)
  IN IF normalized # <<>> /\ Head(normalized) = ".."
       THEN [raised |-> Exc("PathOutsideRoot"), root |-> <<>>, path |-> <<>>]
     ELSE IF HasManager(ms, parts[1])
       THEN [raised |-> NoExc, root |-> ManagerRoot(ms, parts[1]),
             path |-> Tail(parts)]
     ELSE IF HasManager(ms, "")
       THEN [raised |-> NoExc, root |-> ManagerRoot(ms, ""), path |-> normalized]
     ELSE [raised |-> HTTPError(404), root |-> <<>>, path |-> <<>>]

\* the root directory url2localpath joins onto, after expanduser
ResolvedRoot(c, path) ==
  IF c.hybrid THEN expanduser(resolve_path(path, c.managers).root)
  ELSE expanduser(c.root_dir)

\* the body of url2localpath (with_contents_manager = False)
url2localpathBody(c, path) ==
  IF c.hybrid
  THEN LET rp == resolve_path(path, c.managers)
       IN IF rp.raised # NoExc
          THEN [raised |-> rp.raised, local_path |-> <<>>]
          ELSE [raised |-> NoExc,
                local_path |-> PathJoin(expanduser(rp.root), url2path(rp.path))]
  ELSE [raised |-> NoExc,
        local_path |-> PathJoin(expanduser(c.root_dir), url2path(path))]

\* functools.lru_cache on a method: the key is the positional arguments,
\* (self, path); self is the handler instance, hashed by identity
CacheKeyPathOnly(self, path) == <<0, path>>
CacheKey(self, path) == <<self, path>>

CacheHit(cch, key) == \E e \in cch : e.key = key
CacheValue(cch, key) == (CHOOSE e \in cch : e.key = key).value

\* the memoized url2localpath: a hit returns the stored value, a miss runs
\* the body and stores the value unless the body raised
url2localpath(cch, c, self, path) ==
  LET key == CacheKey(self, path)
  IN IF CacheHit(cch, key)
     THEN [raised |-> NoExc, local_path |-> CacheValue(cch, key), cache |-> cch]
     ELSE LET res == url2localpathBody(c, path)
          IN [raised |-> res.raised, local_path |-> res.local_path,
              cache |-> IF res.raised = NoExc
                        THEN cch \cup {[key |-> key, value |-> res.local_path]}
                        ELSE cch]

\* ------------------------------------------------------------ JSON bodies
JStr(t) == [t |-> "str", v |-> t]
JBool(b) == [t |-> "bool", v |-> IF b THEN "true" ELSE "false"]
JNum(n) == [t |-> "num", v |-> n]
JMissing == [t |-> "missing", v |-> ""]

\* Python truthiness of a decoded JSON value
Truthy(j) ==
  CASE j.t = "bool" -> j.v = "true"
    [] j.t = "str" -> j.v # ""
    [] j.t = "num" -> j.v # "0"
    [] OTHER -> FALSE

AbsentBody == [kind |-> "absent", drive_name |-> JMissing, mount_drive |-> JMissing]
InvalidBody == [kind |-> "invalid", drive_name |-> JMissing, mount_drive |-> JMissing]
ObjectBody(d, m) == [kind |-> "object", drive_name |-> d, mount_drive |-> m]

Bodies ==
  { AbsentBody, InvalidBody,
    ObjectBody(JStr("bucket-a"), JMissing),
    ObjectBody(JMissing, JBool(TRUE)),
    ObjectBody(JStr("bucket-a"), JBool(TRUE)),
    ObjectBody(JStr("bucket-a"), JBool(FALSE)),
    ObjectBody(JNum("42"), JBool(TRUE)),
    ObjectBody(JStr("bucket-a"), JStr("yes")) }

WellTyped(b) ==
  b.kind = "object" /\ b.drive_name.t = "str" /\ b.mount_drive.t = "bool"

\* ------------------------------------------------------------- requests
HTTPRequest(m, e, sfx, a, b) ==
  [method |-> m, endpoint |-> e, suffix |-> sfx, auth |-> a, body |-> b]

ValidBody == ObjectBody(JStr("bucket-a"), JBool(TRUE))

\* the requests a client sends: URL = base_url/jupyter-drives/<endpoint>[/<suffix>]
Requests ==
  { HTTPRequest("GET", "drives", <<>>, a, AbsentBody) : a \in BOOLEAN }
  \cup { HTTPRequest("GET", "drives", <<"a">>, TRUE, AbsentBody),
         HTTPRequest("POST", "drives", <<>>, TRUE, ValidBody),
         HTTPRequest("POST", "mount-drive", <<>>, FALSE, ValidBody),
         HTTPRequest("POST", "mount-drive", <<"a">>, TRUE, ValidBody) }
  \cup { HTTPRequest("POST", "mount-drive", <<>>, TRUE, b) : b \in Bodies }

\* what a DriveManager call can do: return a result, raise an HTTPError
\* carrying an error_code, raise any other exception
BackendOutcomes ==
  { NoExc,
    [cls |-> "HTTPError", status |-> 404, reason |-> JText("Drive not found"),
     has_code |-> TRUE, error_code |-> "drive_not_found"],
    Exc("RuntimeError") }

\* ------------------------------------------------------------ responses
NoResponse == [status |-> 0, ctype |-> "", json |-> "none", keys |-> {},
               error |-> JNull, error_code |-> ""]

\* a body the handler finished with json.dumps(value)
OkResponse(shape) == [status |-> 200, ctype |-> "application/json", json |-> shape,
                      keys |-> {}, error |-> JNull, error_code |-> ""]

\* the framework's own answer when no route matches
FrameworkNotFound == [status |-> 404, ctype |-> "text/html", json |-> "none",
                      keys |-> {}, error |-> JNull, error_code |-> ""]

\* traceback.format_exception(*exc_info) joined into one string
format_exception(e) == [kind |-> "traceback", text |-> e.cls]

\* JupyterDrivesAPIHandler.write_error(status_code, exc_info=...)
write_errorNoErrorKey(status_code, exc_info) ==
  [status |-> status_code, ctype |-> "application/json", json |-> "object",
   keys |-> IF exc_info # NoExc /\ exc_info.cls = "HTTPError"
            THEN (IF exc_info.has_code THEN {"error_code"} ELSE {})
            ELSE {"error"},
   error |-> JText("Unhandled error"), error_code |-> exc_info.error_code]
write_error(status_code, exc_info) ==
  LET reply0 == [keys |-> {"error"}, error |-> JText("Unhandled error"),
                 error_code |-> ""]
      reply ==
        IF exc_info # NoExc
        THEN IF exc_info.cls = "HTTPError"
             THEN [keys |-> IF exc_info.has_code
                            THEN {"error", "error_code"} ELSE {"error"},
                   error |-> exc_info.reason,
                   error_code |-> IF exc_info.has_code
                                  THEN exc_info.error_code ELSE ""]
             ELSE [keys |-> {"error"}, error |-> format_exception(exc_info),
                   error_code |-> ""]
        ELSE reply0
  IN [status |-> status_code, ctype |-> "application/json", json |-> "object",
      keys |-> reply.keys, error |-> reply.error, error_code |-> reply.error_code]

\* tornado's RequestHandler._handle_request_exception / send_error: an
\* HTTPError keeps its status code, anything else is a 500
send_error(e) ==
  write_error(IF e.cls = "HTTPError" THEN e.status ELSE 500, e)

\* ------------------------------------------------------------- registry
Providers == {"s3", "gcs", "azure", "ftp"}

\* MANAGERS: provider -> entry point; what loading the entry point and
\* calling the loaded factory do
MANAGERS ==
  [p \in {"s3", "gcs", "azure"} |->
     CASE p = "s3" -> "ok"
       [] p = "gcs" -> "factory_raises"
       [] p = "azure" -> "load_raises"]

default_handlers ==
  { <<"drives", "ListJupyterDrivesHandler">>,
    <<"mount-drive", "MountJupyterDriveHandler">> }

\* the HTTP methods a handler class implements
Implements(h, m) ==
  \/ h = "ListJupyterDrivesHandler" /\ m = "GET"
  \/ h = "MountJupyterDriveHandler" /\ m = "POST"

\* ---------------------------------------------------------------- state
VARIABLES
  provider,     \* DrivesConfig(config).provider
  debug,        \* whether the server runs in a debug-enabled mode
  setupPc,      \* position of setup_handlers
  setupError,   \* the exception setup_handlers raised, "none" if none
  manager,      \* the manager the factory constructed, "none" before
  handlers,     \* the (pattern, handler class) rules given to add_handlers
  cm,           \* the host's contents manager (root configuration)
  cache,        \* the entries of url2localpath's lru_cache
  loopOwner,    \* the request whose coroutine holds the event loop, 0 if none
  nreq,         \* number of requests received so far
  pc,           \* per request: "new", "awaiting" (suspended in await), "done"
  request,      \* per request: the HTTP request
  handler,      \* per request: the handler class it was routed to
  pathArg,      \* per request: the path argument post() ran with
  localPath,    \* per request: what url2localpath returned
  cmAtResolve,  \* per request: the root configuration when it was resolved
  calls,        \* per request: the DriveManager calls it made
  outcome,      \* per request: what its DriveManager call did
  response,     \* per request: the response that ended it
  resolveArg,   \* argument of a direct url2localpath evaluation
  resolveOut    \* its result

vars == <<provider, debug, setupPc, setupError, manager, handlers, cm, cache,
          loopOwner, nreq, pc, request, handler, pathArg, localPath,
          cmAtResolve, calls, outcome, response, resolveArg, resolveOut>>

setupVars == <<provider, debug, setupPc, setupError, manager, handlers>>
reqVars == <<nreq, pc, request, handler, pathArg, localPath, cmAtResolve,
             calls, outcome, response>>
resolveVars == <<resolveArg, resolveOut>>

Reqs == 1..MaxReq

NoRequest == HTTPRequest("", "", <<>>, FALSE, AbsentBody)
NoPath == <<"?">>
NoResolve == [raised |-> NoExc, local_path |-> NoPath]

InitCommon ==
  /\ debug \in BOOLEAN
  /\ setupError = "none"
  /\ manager = "none"
  /\ handlers = {}
  /\ cache = {}
  /\ loopOwner = 0
  /\ nreq = 0
  /\ pc = [r \in Reqs |-> "new"]
  /\ request = [r \in Reqs |-> NoRequest]
  /\ handler = [r \in Reqs |-> "none"]
  /\ pathArg = [r \in Reqs |-> NoPath]
  /\ localPath = [r \in Reqs |-> NoPath]
  /\ cmAtResolve = [r \in Reqs |-> PlainCM(<<>>)]
  /\ calls = [r \in Reqs |-> <<>>]
  /\ outcome = [r \in Reqs |-> NoExc]
  /\ response = [r \in Reqs |-> NoResponse]

Init ==
  /\ InitCommon
  /\ cm \in ServedCMs
  /\ provider \in Providers
  /\ setupPc = "start"
  /\ resolveArg = <<>>
  /\ resolveOut = NoResolve

\* ------------------------------------------------------- setup_handlers
\* entry_point = MANAGERS.get(provider); None raises NotImplementedError
SetupResolve ==
  /\ setupPc = "start"
  /\ IF provider \in DOMAIN MANAGERS
     THEN setupPc' = "resolved" /\ setupError' = setupError
     ELSE setupPc' = "raised" /\ setupError' = "NotImplementedError"
  /\ UNCHANGED <<provider, debug, manager, handlers, cm, cache, loopOwner>>
  /\ UNCHANGED reqVars /\ UNCHANGED resolveVars

\* manager_factory = entry_point.load(): an import failure propagates
SetupLoad ==
  /\ setupPc = "resolved"
  /\ IF MANAGERS[provider] = "load_raises"
     THEN setupPc' = "raised" /\ setupError' = "ImportError"
     ELSE setupPc' = "loaded" /\ setupError' = setupError
  /\ UNCHANGED <<provider, debug, manager, handlers, cm, cache, loopOwner>>
  /\ UNCHANGED reqVars /\ UNCHANGED resolveVars

\* try: manager = manager_factory(config) except Exception: log; raise
ConstructSwallowing(entry) ==
  IF entry = "factory_raises"
  THEN [pc |-> "constructed", error |-> "none", manager |-> "none"]
  ELSE [pc |-> "constructed", error |-> "none", manager |-> "ok"]
Construct(entry) ==
  IF entry = "factory_raises"
  THEN [pc |-> "raised", error |-> "FactoryError", manager |-> "none"]
  ELSE [pc |-> "constructed", error |-> "none", manager |-> "ok"]

SetupConstruct ==
  /\ setupPc = "loaded"
  /\ LET c == Construct(MANAGERS[provider])
     IN setupPc' = c.pc /\ setupError' = c.error /\ manager' = c.manager
  /\ UNCHANGED <<provider, debug, handlers, cm, cache, loopOwner>>
  /\ UNCHANGED reqVars /\ UNCHANGED resolveVars

\* web_app.add_handlers(host_pattern, handlers)
SetupAddHandlers ==
  /\ setupPc = "constructed"
  /\ handlers' = default_handlers
  /\ setupPc' = "serving"
  /\ UNCHANGED <<provider, debug, setupError, manager, cm, cache, loopOwner>>
  /\ UNCHANGED reqVars /\ UNCHANGED resolveVars

\* -------------------------------------------------------------- routing
\* a rule's pattern is anchored at both ends ("$" is appended) and has no
\* capture group: it matches the bare endpoint only
Match(pattern, rq) == rq.endpoint = pattern /\ rq.suffix = <<>>

\* the path argument post() runs with: no group, so the default ""
PathArg(rq) == <<>>

Routed(rq) == {rule \in handlers : Match(rule[1], rq)}
RouteOf(rq) == (CHOOSE rule \in Routed(rq) : TRUE)[2]

\* the server is up once setup_handlers returned or raised (the host logs a
\* failed extension and carries on without its routes)
Serving == setupPc \in {"serving", "raised"}

\* the event loop runs one coroutine at a time; a new request is the next id
CanReceive == Serving /\ loopOwner = 0 /\ nreq < MaxReq

\* what an await does to the event loop: the coroutine gives it up
AwaitBlocking(r) == r
Await(r) == 0

Done(r, rq, h, resp) ==
  /\ nreq' = r
  /\ pc' = [pc EXCEPT ![r] = "done"]
  /\ request' = [request EXCEPT ![r] = rq]
  /\ handler' = [handler EXCEPT ![r] = h]
  /\ response' = [response EXCEPT ![r] = resp]

\* no rule matches: the framework answers 404, no handler of ours runs
NotFound(rq) ==
  LET r == nreq + 1
  IN /\ CanReceive
     /\ Routed(rq) = {}
     /\ Done(r, rq, "none", FrameworkNotFound)
     /\ UNCHANGED <<pathArg, localPath, cmAtResolve, calls, outcome>>
     /\ UNCHANGED <<cm, cache, loopOwner>>
     /\ UNCHANGED setupVars /\ UNCHANGED resolveVars

\* the handler class has no such method: tornado raises HTTPError(405)
MethodNotAllowed(rq) ==
  LET r == nreq + 1
  IN /\ CanReceive
     /\ Routed(rq) # {}
     /\ ~Implements(RouteOf(rq), rq.method)
     /\ Done(r, rq, RouteOf(rq), send_error(HTTPError(405)))
     /\ UNCHANGED <<pathArg, localPath, cmAtResolve, calls, outcome>>
     /\ UNCHANGED <<cm, cache, loopOwner>>
     /\ UNCHANGED setupVars /\ UNCHANGED resolveVars

\* @tornado.web.authenticated without a current user: HTTPError(403)
Unauthenticated(rq) ==
  LET r == nreq + 1
  IN /\ CanReceive
     /\ Routed(rq) # {}
     /\ Implements(RouteOf(rq), rq.method)
     /\ ~rq.auth
     /\ Done(r, rq, RouteOf(rq), send_error(HTTPError(403)))
     /\ UNCHANGED <<pathArg, localPath, cmAtResolve, calls, outcome>>
     /\ UNCHANGED <<cm, cache, loopOwner>>
     /\ UNCHANGED setupVars /\ UNCHANGED resolveVars

\* a DriveManager call record
Call(op, d, lp) == [op |-> op, drive_name |-> d, local_path |-> lp]

\* ListJupyterDrivesHandler.get up to its await
ListGet(rq) ==
  LET r == nreq + 1
  IN /\ CanReceive
     /\ Routed(rq) # {}
     /\ RouteOf(rq) = "ListJupyterDrivesHandler"
     /\ rq.method = "GET"
     /\ rq.auth
     /\ nreq' = r
     /\ request' = [request EXCEPT ![r] = rq]
     /\ handler' = [handler EXCEPT ![r] = RouteOf(rq)]
     /\ calls' = [calls EXCEPT ![r] = <<Call("list_drives", JMissing, NoPath)>>]
     /\ pc' = [pc EXCEPT ![r] = "awaiting"]
     /\ loopOwner' = Await(r)
     /\ UNCHANGED <<pathArg, localPath, cmAtResolve, outcome, response>>
     /\ UNCHANGED <<cm, cache>>
     /\ UNCHANGED setupVars /\ UNCHANGED resolveVars

\* ListJupyterDrivesHandler.get after list_drives returned or raised
ListReturn(r, out) ==
  /\ pc[r] = "awaiting"
  /\ handler[r] = "ListJupyterDrivesHandler"
  /\ loopOwner \in {0, r}
  /\ outcome' = [outcome EXCEPT ![r] = out]
  /\ response' = [response EXCEPT ![r] =
        IF out = NoExc THEN OkResponse("array") ELSE send_error(out)]
  /\ pc' = [pc EXCEPT ![r] = "done"]
  /\ loopOwner' = 0
  /\ UNCHANGED <<nreq, request, handler, pathArg, localPath, cmAtResolve, calls>>
  /\ UNCHANGED <<cm, cache>>
  /\ UNCHANGED setupVars /\ UNCHANGED resolveVars

\* get_json_body and the two subscripts body["drive_name"], body["mount_drive"]:
\* the exception they raise, NoExc if none
ReadBody(b) ==
  CASE b.kind = "invalid" -> HTTPError(400)
    [] b.kind = "absent" -> Exc("TypeError")
    [] b.kind = "object" /\ b.drive_name.t = "missing" -> Exc("KeyError")
    [] b.kind = "object" /\ b.drive_name.t # "missing"
                         /\ b.mount_drive.t = "missing" -> Exc("KeyError")
    [] OTHER -> NoExc

\* if mount_drive: mount_drive(...) else: unmount_drive(...)
DispatchSwapped(mount_drive) ==
  IF Truthy(mount_drive) THEN "unmount_drive" ELSE "mount_drive"
Dispatch(mount_drive) ==
  IF Truthy(mount_drive) THEN "mount_drive" ELSE "unmount_drive"

\* MountJupyterDriveHandler.post up to its await, or to the exception that
\* ends it before; the framework builds one handler instance per request, so
\* self is the request's own id
MountPost(rq) ==
  LET r == nreq + 1
      path == PathArg(rq)
      bodyExc == ReadBody(rq.body)
      res == url2localpath(cache, cm, r, path)
  IN /\ CanReceive
     /\ Routed(rq) # {}
     /\ RouteOf(rq) = "MountJupyterDriveHandler"
     /\ rq.method = "POST"
     /\ rq.auth
     /\ nreq' = r
     /\ request' = [request EXCEPT ![r] = rq]
     /\ handler' = [handler EXCEPT ![r] = RouteOf(rq)]
     /\ pathArg' = [pathArg EXCEPT ![r] = path]
     /\ IF bodyExc # NoExc
        THEN /\ response' = [response EXCEPT ![r] = send_error(bodyExc)]
             /\ pc' = [pc EXCEPT ![r] = "done"]
             /\ loopOwner' = 0
             /\ UNCHANGED <<localPath, cmAtResolve, calls, cache>>
        ELSE /\ cache' = res.cache
             /\ cmAtResolve' = [cmAtResolve EXCEPT ![r] = cm]
             /\ IF res.raised # NoExc
                THEN /\ response' = [response EXCEPT ![r] = send_error(res.raised)]
                     /\ pc' = [pc EXCEPT ![r] = "done"]
                     /\ loopOwner' = 0
                     /\ UNCHANGED <<localPath, calls>>
                ELSE /\ localPath' = [localPath EXCEPT ![r] = res.local_path]
                     /\ calls' = [calls EXCEPT ![r] =
                          <<Call(Dispatch(rq.body.mount_drive),
                                 rq.body.drive_name, res.local_path)>>]
                     /\ pc' = [pc EXCEPT ![r] = "awaiting"]
                     /\ loopOwner' = Await(r)
                     /\ UNCHANGED response
     /\ UNCHANGED <<outcome, cm>>
     /\ UNCHANGED setupVars /\ UNCHANGED resolveVars

\* self.finish(json.dump(result)): json.dump takes (obj, fp); called with
\* one argument it raises TypeError before anything is written
FinishResult(result) == send_error(Exc("TypeError"))

\* MountJupyterDriveHandler.post after the DriveManager call returned or raised
MountReturn(r, out) ==
  /\ pc[r] = "awaiting"
  /\ handler[r] = "MountJupyterDriveHandler"
  /\ loopOwner \in {0, r}
  /\ outcome' = [outcome EXCEPT ![r] = out]
  /\ response' = [response EXCEPT ![r] =
        IF out = NoExc THEN FinishResult(out) ELSE send_error(out)]
  /\ pc' = [pc EXCEPT ![r] = "done"]
  /\ loopOwner' = 0
  /\ UNCHANGED <<nreq, request, handler, pathArg, localPath, cmAtResolve, calls>>
  /\ UNCHANGED <<cm, cache>>
  /\ UNCHANGED setupVars /\ UNCHANGED resolveVars

\* the host's root configuration is changed at runtime
Reconfigure(c) ==
  /\ Serving
  /\ loopOwner = 0
  /\ c # cm
  /\ cm' = c
  /\ UNCHANGED <<cache, loopOwner>>
  /\ UNCHANGED setupVars /\ UNCHANGED reqVars /\ UNCHANGED resolveVars

Next ==
  \/ SetupResolve
  \/ SetupLoad
  \/ SetupConstruct
  \/ SetupAddHandlers
  \/ \E rq \in Requests : NotFound(rq)
  \/ \E rq \in Requests : MethodNotAllowed(rq)
  \/ \E rq \in Requests : Unauthenticated(rq)
  \/ \E rq \in Requests : ListGet(rq)
  \/ \E rq \in Requests : MountPost(rq)
  \/ \E r \in Reqs, out \in BackendOutcomes : ListReturn(r, out)
  \/ \E r \in Reqs, out \in BackendOutcomes : MountReturn(r, out)
  \/ \E c \in ServedCMs : Reconfigure(c)

Spec == Init /\ [][Next]_vars

\* ------------------------------------------- url2localpath on its own
\* the resolver applied to any logical path under any root configuration
InitResolve ==
  /\ InitCommon
  /\ cm \in CMs
  /\ provider = "s3"
  /\ setupPc = "serving"
  /\ resolveArg \in LogicalPaths
  /\ resolveOut = NoResolve

ResolveApply ==
  /\ resolveOut = NoResolve
  /\ resolveOut' = url2localpathBody(cm, resolveArg)
  /\ UNCHANGED <<resolveArg, cm, cache, loopOwner>>
  /\ UNCHANGED setupVars /\ UNCHANGED reqVars

ResolveNext(p) ==
  /\ resolveOut # NoResolve
  /\ resolveArg' = p
  /\ resolveOut' = NoResolve
  /\ UNCHANGED <<cm, cache, loopOwner>>
  /\ UNCHANGED setupVars /\ UNCHANGED reqVars

NextResolve ==
  \/ ResolveApply
  \/ \E p \in LogicalPaths : ResolveNext(p)

SpecResolve == InitResolve /\ [][NextResolve]_vars

\* ---------------------------------------------------------------- claims
Mount == "MountJupyterDriveHandler"
List == "ListJupyterDrivesHandler"

\* the body carries drive_name (of any type) and a boolean mount_drive
CarriesFields(b) ==
  b.kind = "object" /\ b.drive_name.t # "missing" /\ b.mount_drive.t = "bool"

\* request r ran MountJupyterDriveHandler.post as an authenticated POST
RanPost(r) ==
  pc[r] # "new" /\ handler[r] = Mount /\ request[r].method = "POST"
  /\ request[r].auth

\* the call the claim expects of a well-typed body
ExpectedCall(r) ==
  Call(IF request[r].body.mount_drive.v = "true"
       THEN "mount_drive" ELSE "unmount_drive",
       request[r].body.drive_name, localPath[r])

\* C1 (as stated): every authenticated POST to the mount endpoint whose body
\* carries drive_name and a boolean mount_drive makes exactly one DriveManager
\* call, mount_drive when the flag is true and unmount_drive when it is false,
\* with the body's drive_name and the local path url2localpath returned.
C1_Original ==
  \A r \in Reqs :
    (RanPost(r) /\ CarriesFields(request[r].body))
      => /\ Len(calls[r]) = 1
         /\ calls[r][1] = ExpectedCall(r)
         /\ localPath[r] = url2localpathBody(cmAtResolve[r], pathArg[r]).local_path

\* C1 (amended): such a request makes exactly that one call whenever
\* url2localpath returns for its path, and makes no DriveManager call at all
\* when url2localpath raises.
C1_DispatchOnce ==
  \A r \in Reqs :
    (RanPost(r) /\ CarriesFields(request[r].body))
      => IF url2localpathBody(cmAtResolve[r], pathArg[r]).raised = NoExc
         THEN /\ Len(calls[r]) = 1
              /\ calls[r][1] = ExpectedCall(r)
              /\ calls[r][1].op \in {"mount_drive", "unmount_drive"}
              /\ localPath[r] =
                   url2localpathBody(cmAtResolve[r], pathArg[r]).local_path
         ELSE calls[r] = <<>> /\ pc[r] = "done"

C1_Witness ==
  /\ \E r \in Reqs : RanPost(r) /\ CarriesFields(request[r].body)
                     /\ calls[r] # <<>> /\ calls[r][1].op = "unmount_drive"
  /\ \E r \in Reqs : RanPost(r) /\ CarriesFields(request[r].body)
                     /\ calls[r] = <<>>

\* C2: whenever the DriveManager's mount_drive or unmount_drive call returns a
\* result without raising, the request ends with status 200 and a JSON body
\* serializing the result, never with an error response.
C2_SuccessIs200 ==
  \A r \in Reqs :
    (pc[r] = "done" /\ handler[r] = Mount /\ calls[r] # <<>>
     /\ outcome[r] = NoExc)
      => response[r].status = 200 /\ response[r].json = "object"
         /\ "error" \notin response[r].keys

\* C3: a mount request whose body is absent, lacks drive_name or mount_drive,
\* or carries a wrong-typed value for either, is answered with a 4xx status,
\* never with a 5xx status.
C3_BadInputIs4xx ==
  \A r \in Reqs :
    (pc[r] = "done" /\ RanPost(r) /\ request[r].body.kind \in {"absent", "object"}
     /\ ~WellTyped(request[r].body))
      => response[r].status \in 400..499

\* C4: a response carries the full fault description (traceback) of an
\* unhandled internal fault only if the server runs in debug-enabled mode.
C4_TracebackOnlyInDebug ==
  \A r \in Reqs :
    (pc[r] = "done" /\ response[r].error.kind = "traceback") => debug

\* C5: the endpoints are registered only after the configured provider was
\* resolved in the registry and its factory constructed the manager; when the
\* provider has no entry or construction raises, setup_handlers raises,
\* add_handlers is never called and no request reaches a handler.
C5_RegisterAfterConstruct ==
  /\ handlers # {} =>
       /\ provider \in DOMAIN MANAGERS
       /\ MANAGERS[provider] = "ok"
       /\ manager = "ok"
       /\ setupError = "none"
  /\ (provider \notin DOMAIN MANAGERS /\ setupPc # "start") =>
       setupPc = "raised" /\ setupError = "NotImplementedError"
  /\ (provider \in DOMAIN MANAGERS /\ MANAGERS[provider] = "factory_raises"
      /\ setupPc \notin {"start", "resolved", "loaded"}) =>
       setupPc = "raised" /\ setupError = "FactoryError"
  /\ setupPc = "raised" => handlers = {}
  /\ \A r \in Reqs : handler[r] # "none" => manager = "ok"

C5_Witness ==
  /\ setupPc = "raised"
  /\ setupError \in {"NotImplementedError", "FactoryError"}
  /\ \E r \in Reqs : pc[r] = "done" /\ handler[r] = "none"
                     /\ request[r].suffix = <<>>

\* the exc_info values write_error can be handed
ExcInfos ==
  BackendOutcomes \cup
  {HTTPError(400), HTTPError(403), HTTPError(404), HTTPError(405),
   Exc("TypeError"), Exc("KeyError"), Exc("PathOutsideRoot")}

IsJsonError(resp) ==
  resp.ctype = "application/json" /\ resp.json = "object" /\ "error" \in resp.keys

\* C6: for every failure raised while handling a list or mount request
\* (HTTPError with or without error_code, any other exception, or no exception
\* info), the response written by write_error is a JSON object with an "error"
\* key and Content-Type application/json.
C6_ErrorsAreJson ==
  /\ \A r \in Reqs :
       (pc[r] = "done" /\ handler[r] # "none" /\ response[r].status # 200)
         => IsJsonError(response[r])
  /\ \A e \in ExcInfos : IsJsonError(send_error(e))
  /\ IsJsonError(write_error(500, NoExc))

C6_Witness ==
  /\ \E r \in Reqs : pc[r] = "done" /\ handler[r] = Mount
                     /\ response[r].status = 404
                     /\ "error_code" \in response[r].keys
  /\ \E r \in Reqs : pc[r] = "done" /\ handler[r] # "none"
                     /\ response[r].status = 500
                     /\ response[r].error.kind = "traceback"

HasTraversal(path) == \E i \in 1..Len(path) : path[i] = ".."

\* C7: for every logical path containing a ".." segment, url2localpath either
\* rejects the request or returns a local path inside the resolved root.
C7_TraversalStaysInside ==
  (resolveOut # NoResolve /\ HasTraversal(resolveArg))
    => \/ resolveOut.raised # NoExc
       \/ InsideRoot(resolveOut.local_path, ResolvedRoot(cm, resolveArg))

\* C8: the local path url2localpath returns to a request is the one computed
\* from the root configuration in force during that request; a value memoized
\* for an earlier request is never returned to a later one.
C8_NoStalePath ==
  \A r \in Reqs :
    localPath[r] # NoPath
      => /\ url2localpathBody(cmAtResolve[r], pathArg[r]).raised = NoExc
         /\ localPath[r] =
              url2localpathBody(cmAtResolve[r], pathArg[r]).local_path

C8_Witness ==
  \E r, q \in Reqs :
    /\ r < q
    /\ localPath[r] # NoPath /\ localPath[q] # NoPath
    /\ pathArg[r] = pathArg[q]
    /\ cmAtResolve[r] # cmAtResolve[q]
    /\ localPath[r] # localPath[q]
    /\ \E e \in cache : e.key[2] = pathArg[q] /\ e.value = localPath[r]

\* C9: a POST to mount-drive/<path> with a non-empty <path> is routed to the
\* mount handler with <path> as its path argument; a POST to mount-drive with
\* no suffix uses the empty path and resolves to the root itself.
C9_SuffixIsPath ==
  \A r \in Reqs :
    (pc[r] # "new" /\ request[r].method = "POST" /\ request[r].auth
     /\ request[r].endpoint = "mount-drive" /\ handlers # {})
      => /\ handler[r] = Mount
         /\ pathArg[r] = request[r].suffix
         /\ localPath[r] # NoPath =>
              normpath(localPath[r]) =
                normpath(PathJoin(ResolvedRoot(cmAtResolve[r], request[r].suffix),
                                  request[r].suffix))

ListRequest == HTTPRequest("GET", "drives", <<>>, TRUE, AbsentBody)
MountRequest == HTTPRequest("POST", "mount-drive", <<>>, TRUE, ValidBody)

\* C10: no request waits for another: while a request is suspended in its
\* DriveManager call, a new list or mount request can start and reach its own
\* call, and every suspended request can complete; a mount and an unmount for
\* the same (drive_name, local_path) can be inside the backend together.
C10_NonBlocking ==
  (\E r \in Reqs : pc[r] = "awaiting") =>
    /\ \A q \in Reqs :
         pc[q] = "awaiting" =>
           IF handler[q] = List
           THEN ENABLED ListReturn(q, NoExc)
           ELSE ENABLED MountReturn(q, NoExc)
    /\ nreq < MaxReq =>
         /\ ENABLED ListGet(ListRequest)
         /\ ENABLED MountPost(MountRequest)

C10_Witness ==
  \E r, q \in Reqs :
    /\ pc[r] = "awaiting" /\ pc[q] = "awaiting"
    /\ calls[r] # <<>> /\ calls[q] # <<>>
    /\ calls[r][1].op = "mount_drive" /\ calls[q][1].op = "unmount_drive"
    /\ calls[r][1].drive_name = calls[q][1].drive_name
    /\ calls[r][1].local_path = calls[q][1].local_path

====
